---- MODULE Spec2Model ----
(***************************************************************************)
(* Model of fastloop_trader.py: the scheduler loop (main_loop), one        *)
(* strategy cycle (run_fast_market_strategy) and the functions it calls.   *)
(*                                                                         *)
(* Python values are tagged records.  A Python float is an integer number  *)
(* of thousandths (0.62 is 620); momentum_pct is kept as an exact fraction *)
(* [num, den] because the code compares it unrounded.  A timestamp is an   *)
(* integer number of seconds since 1 January of BaseYear, 00:00:00 UTC.    *)
(* A call that may raise returns Ok(value) or Raise(exception name).       *)
(***************************************************************************)
EXTENDS Integers, Sequences, FiniteSets, TLC

VARIABLES
    env,        \* os.environ, fixed for the life of the process
    pc,         \* where main_loop / run_fast_market_strategy stands
    clock,      \* the UTC time read by datetime.now() in the current cycle
    resp,       \* what the last _api_request call returned
    net,        \* what the network did to the last request
    markets,    \* run_fast_market_strategy: markets
    market,     \* run_fast_market_strategy: market
    yes_price,  \* run_fast_market_strategy: yes_price
    signal,     \* run_fast_market_strategy: signal
    exc,        \* the exception propagating out of the cycle, or NoExc
    out,        \* the lines printed since the current cycle began
    args,       \* the parsed command line: [live]
    reqs,       \* the requests urlopen was given since the current cycle began
    nap         \* sleep_until_next_minute: now and sleep_sec of the last sleep

vars == <<env, pc, clock, resp, net, markets, market, yes_price, signal, exc, out, args,
          reqs, nap>>

----------------------------------------------------------------------------
(* Python values *)

None == [t |-> "None"]
PyStr(s) == [t |-> "str", s |-> s]
PyInt(n) == [t |-> "int", n |-> n]
PyFloat(m) == [t |-> "float", m |-> m]
PyList(xs) == [t |-> "list", xs |-> xs]
PyDict(kv) == [t |-> "dict", kv |-> kv]
EmptyDict == PyDict(<<>>)
\* an object json.dumps cannot encode
PyObject == [t |-> "object"]

\* `name = v` followed by F's body: a local variable bound once
With(v, F(_)) == F(v)

Ok(v) == [ok |-> TRUE, v |-> v]
Raise(e) == [ok |-> FALSE, e |-> e]

NoExc == "none"
\* a local variable that is not bound (yet, or any more)
Unbound == [t |-> "unbound"]
\* no request made yet in this cycle
NoNet == [k |-> "none"]

\* bool(v): None, "", 0, 0.0, [] and {} are false.
Truthy(v) ==
    CASE v.t = "None" -> FALSE
      [] v.t = "str" -> v.s # ""
      [] v.t = "int" -> v.n # 0
      [] v.t = "float" -> v.m # 0
      [] v.t = "list" -> Len(v.xs) > 0
      [] v.t = "dict" -> DOMAIN v.kv # {}
      [] v.t \in {"datetime", "object"} -> TRUE

\* isinstance(v, list)
IsList(v) == v.t = "list"

\* d.get(key, default) on a dict d
DictGet(d, key, default) == IF key \in DOMAIN d.kv THEN d.kv[key] ELSE default

Abs(n) == IF n < 0 THEN -n ELSE n

----------------------------------------------------------------------------
(* Strings.  A str is a TLA+ string; Chars gives its characters, for the   *)
(* operations the code does character by character (lower, in, re.search,  *)
(* strptime).                                                              *)

Chars(s) ==
    CASE s = "Bitcoin Up or Down - January 5 9:00AM-9:05AM" ->
         <<"B","i","t","c","o","i","n"," ","U","p"," ","o","r"," ","D","o","w","n"," ","-"," ","J","a","n","u","a","r","y"," ","5"," ","9",":","0","0","A","M","-","9",":","0","5","A","M">>
      [] s = "Bitcoin Up or Down - January 5 9:05AM-9:10AM" ->
         <<"B","i","t","c","o","i","n"," ","U","p"," ","o","r"," ","D","o","w","n"," ","-"," ","J","a","n","u","a","r","y"," ","5"," ","9",":","0","5","A","M","-","9",":","1","0","A","M">>
      [] s = "BITCOIN UP OR DOWN - Jan 5 9:00AM-9:05AM" ->
         <<"B","I","T","C","O","I","N"," ","U","P"," ","O","R"," ","D","O","W","N"," ","-"," ","J","a","n"," ","5"," ","9",":","0","0","A","M","-","9",":","0","5","A","M">>
      [] s = "Bitcoin Up or Down 2 - January 5 9:00AM-9:05AM" ->
         <<"B","i","t","c","o","i","n"," ","U","p"," ","o","r"," ","D","o","w","n"," ","2"," ","-"," ","J","a","n","u","a","r","y"," ","5"," ","9",":","0","0","A","M","-","9",":","0","5","A","M">>
      [] s = "Bitcoin Up or Down - February 30 9:00AM-9:05AM" ->
         <<"B","i","t","c","o","i","n"," ","U","p"," ","o","r"," ","D","o","w","n"," ","-"," ","F","e","b","r","u","a","r","y"," ","3","0"," ","9",":","0","0","A","M","-","9",":","0","5","A","M">>
      [] s = "Bitcoin Up or Down - January 5 1:00PM-13:05PM" ->
         <<"B","i","t","c","o","i","n"," ","U","p"," ","o","r"," ","D","o","w","n"," ","-"," ","J","a","n","u","a","r","y"," ","5"," ","1",":","0","0","P","M","-","1","3",":","0","5","P","M">>
      [] s = "Bitcoin Up or Down - January 5 9:05AM" ->
         <<"B","i","t","c","o","i","n"," ","U","p"," ","o","r"," ","D","o","w","n"," ","-"," ","J","a","n","u","a","r","y"," ","5"," ","9",":","0","5","A","M">>
      [] s = "Bitcoin Up or Down?" ->
         <<"B","i","t","c","o","i","n"," ","U","p"," ","o","r"," ","D","o","w","n","?">>
      [] s = "Ethereum Up or Down - January 5 9:00AM-9:05AM" ->
         <<"E","t","h","e","r","e","u","m"," ","U","p"," ","o","r"," ","D","o","w","n"," ","-"," ","J","a","n","u","a","r","y"," ","5"," ","9",":","0","0","A","M","-","9",":","0","5","A","M">>
      [] s = "btc-updown-5m-1767621900" ->
         <<"b","t","c","-","u","p","d","o","w","n","-","5","m","-","1","7","6","7","6","2","1","9","0","0">>
      [] s = "btc-updown-15m-1767621900" ->
         <<"b","t","c","-","u","p","d","o","w","n","-","1","5","m","-","1","7","6","7","6","2","1","9","0","0">>
      [] s = "bitcoin up or down" ->
         <<"b","i","t","c","o","i","n"," ","u","p"," ","o","r"," ","d","o","w","n">>
      [] s = "ethereum up or down" ->
         <<"e","t","h","e","r","e","u","m"," ","u","p"," ","o","r"," ","d","o","w","n">>
      [] s = "solana up or down" ->
         <<"s","o","l","a","n","a"," ","u","p"," ","o","r"," ","d","o","w","n">>
      [] s = "5m" ->
         <<"5","m">>
      [] s = "january" ->
         <<"j","a","n","u","a","r","y">>
      [] s = "february" ->
         <<"f","e","b","r","u","a","r","y">>
      [] s = "march" ->
         <<"m","a","r","c","h">>
      [] s = "april" ->
         <<"a","p","r","i","l">>
      [] s = "may" ->
         <<"m","a","y">>
      [] s = "june" ->
         <<"j","u","n","e">>
      [] s = "july" ->
         <<"j","u","l","y">>
      [] s = "august" ->
         <<"a","u","g","u","s","t">>
      [] s = "september" ->
         <<"s","e","p","t","e","m","b","e","r">>
      [] s = "october" ->
         <<"o","c","t","o","b","e","r">>
      [] s = "november" ->
         <<"n","o","v","e","m","b","e","r">>
      [] s = "december" ->
         <<"d","e","c","e","m","b","e","r">>
      [] s = "" -> <<>>

UpperCase == <<"A","B","C","D","E","F","G","H","I","J","K","L","M",
               "N","O","P","Q","R","S","T","U","V","W","X","Y","Z">>
LowerCase == <<"a","b","c","d","e","f","g","h","i","j","k","l","m",
               "n","o","p","q","r","s","t","u","v","w","x","y","z">>
DigitChars == <<"0","1","2","3","4","5","6","7","8","9">>

Range(f) == {f[i] : i \in DOMAIN f}

LowerChar(c) ==
    IF c \in Range(UpperCase)
    THEN LowerCase[CHOOSE i \in 1..26 : UpperCase[i] = c]
    ELSE c

\* str.lower()
Lower(cs) == [i \in 1..Len(cs) |-> LowerChar(cs[i])]

\* needle in hay, for two str
Contains(hay, needle) ==
    \E i \in 1..(Len(hay) - Len(needle) + 1) :
        SubSeq(hay, i, i + Len(needle) - 1) = needle

IsDigit(c) == c \in Range(DigitChars)
IsWord(c) == c \in Range(DigitChars) \cup Range(UpperCase) \cup Range(LowerCase) \cup {"_"}
IsSpace(c) == c \in {" ", "\t", "\n", "\r"}
DigitVal(c) == (CHOOSE i \in 1..10 : DigitChars[i] = c) - 1

----------------------------------------------------------------------------
(* Time: seconds since 1 January of BaseYear, 00:00:00 UTC *)

BaseYear == 2026
HourOffset == 5

MonthNames == <<"january", "february", "march", "april", "may", "june", "july",
                "august", "september", "october", "november", "december">>

IsLeap(y) == (y % 4 = 0 /\ y % 100 # 0) \/ y % 400 = 0
DaysInYear(y) == IF IsLeap(y) THEN 366 ELSE 365
DaysInMonth(y, m) ==
    CASE m \in {1, 3, 5, 7, 8, 10, 12} -> 31
      [] m \in {4, 6, 9, 11} -> 30
      [] m = 2 -> IF IsLeap(y) THEN 29 ELSE 28

RECURSIVE DaysBeforeMonth(_, _)
DaysBeforeMonth(y, m) ==
    IF m = 1 THEN 0 ELSE DaysBeforeMonth(y, m - 1) + DaysInMonth(y, m - 1)

RECURSIVE DaysBeforeYear(_)
DaysBeforeYear(y) ==
    IF y <= BaseYear THEN 0 ELSE DaysBeforeYear(y - 1) + DaysInYear(y - 1)

\* datetime(y, mo, d, h, mi) as a timestamp
Timestamp(y, mo, d, h, mi) ==
    (DaysBeforeYear(y) + DaysBeforeMonth(y, mo) + (d - 1)) * 86400 + h * 3600 + mi * 60

\* datetime.now(timezone.utc).year
RECURSIVE YearFrom(_, _)
YearFrom(y, t) ==
    IF t < DaysInYear(y) * 86400 THEN y ELSE YearFrom(y + 1, t - DaysInYear(y) * 86400)
YearOf(t) == YearFrom(BaseYear, t)

----------------------------------------------------------------------------
(* parse_end_time *)

\* The end of the longest run of characters satisfying P that starts at i
\* (the index after the run; i itself when cs[i] does not satisfy P).
RunEnd(cs, i, P(_)) ==
    CHOOSE j \in i..(Len(cs) + 1) :
        /\ \A k \in i..(j - 1) : P(cs[k])
        /\ (j = Len(cs) + 1 \/ ~P(cs[j]))

\* \d{1,2}:\d{2}(AM|PM) matched at t: the length matched, 0 if none
TimeLen(cs, t) ==
    LET n == Len(cs)
        tail(a) == /\ a + 4 <= n
                   /\ cs[a] = ":"
                   /\ IsDigit(cs[a + 1]) /\ IsDigit(cs[a + 2])
                   /\ cs[a + 3] \in {"A", "P"} /\ cs[a + 4] = "M"
    IN  IF t + 1 <= n /\ IsDigit(cs[t]) /\ IsDigit(cs[t + 1]) /\ tail(t + 2) THEN 7
        ELSE IF t <= n /\ IsDigit(cs[t]) /\ tail(t + 1) THEN 6
        ELSE 0

\* re.search(r'(\w+ \d+).*?-\s*(\d{1,2}:\d{2}(AM|PM))', question) tried at
\* start i: [found, word, day, time] (group 1 is word + " " + day, group 2
\* is time).  \w+ ends at j, \d+ at e, .*? at the first "-" that \s* and a
\* time follow, and the time starts at tm.
NoMatch == [found |-> FALSE]
Least(S) == CHOOSE i \in S : \A k \in S : i <= k
\* the same without the "-" before the time: (\w+ \d+).*?(\d{1,2}:\d{2}(AM|PM))
MatchAt_FirstTime(cs, i) ==
    With(RunEnd(cs, i, IsWord), LAMBDA j :
      IF ~(j > i /\ j <= Len(cs) /\ cs[j] = " ") THEN NoMatch
      ELSE
      With(RunEnd(cs, j + 1, IsDigit), LAMBDA e :
        IF e = j + 1 THEN NoMatch
        ELSE
        With({p \in e..Len(cs) :
                /\ \A k \in e..(p - 1) : cs[k] # "\n"
                /\ TimeLen(cs, p) > 0}, LAMBDA times :
          IF times = {} THEN NoMatch
          ELSE [found |-> TRUE,
                word |-> SubSeq(cs, i, j - 1),
                day |-> SubSeq(cs, j + 1, e - 1),
                time |-> SubSeq(cs, Least(times),
                                Least(times) + TimeLen(cs, Least(times)) - 1)])))
MatchAt(cs, i) ==
    With(RunEnd(cs, i, IsWord), LAMBDA j :
      IF ~(j > i /\ j <= Len(cs) /\ cs[j] = " ") THEN NoMatch
      ELSE
      With(RunEnd(cs, j + 1, IsDigit), LAMBDA e :
        IF e = j + 1 THEN NoMatch
        ELSE
        With({p \in e..Len(cs) :
                /\ cs[p] = "-"
                /\ \A k \in e..(p - 1) : cs[k] # "\n"
                /\ TimeLen(cs, RunEnd(cs, p + 1, IsSpace)) > 0}, LAMBDA dashes :
          IF dashes = {} THEN NoMatch
          ELSE
          With(RunEnd(cs, Least(dashes) + 1, IsSpace), LAMBDA tm :
            [found |-> TRUE,
             word |-> SubSeq(cs, i, j - 1),
             day |-> SubSeq(cs, j + 1, e - 1),
             time |-> SubSeq(cs, tm, tm + TimeLen(cs, tm) - 1)]))))

\* the leftmost match
ReSearch(cs) ==
    With({i \in 1..Len(cs) : MatchAt(cs, i).found}, LAMBDA starts :
      IF starts = {} THEN NoMatch ELSE MatchAt(cs, Least(starts)))

\* %b for %B: the first three letters of a month name, any case
MonthOf_Abbrev(word) ==
    LET ms == {m \in 1..12 : SubSeq(Chars(MonthNames[m]), 1, 3) = Lower(word)}
    IN  IF ms = {} THEN 0 ELSE CHOOSE m \in ms : TRUE

\* %B: a full month name, any case; 0 if none
MonthOf(word) ==
    LET ms == {m \in 1..12 : Chars(MonthNames[m]) = Lower(word)}
    IN  IF ms = {} THEN 0 ELSE CHOOSE m \in ms : TRUE

\* %d: 1..31 in one or two digits; 0 if the digits are no day
DayOf(ds) ==
    LET v == IF Len(ds) = 1 THEN DigitVal(ds[1])
             ELSE IF Len(ds) = 2 THEN 10 * DigitVal(ds[1]) + DigitVal(ds[2])
             ELSE 0
    IN  IF v >= 1 /\ v <= 31 THEN v ELSE 0

\* %I:%M%p on the matched time: [ok, h, mi] with h in 0..23
ClockOf(ts) ==
    LET two == Len(ts) = 7
        h12 == IF two THEN 10 * DigitVal(ts[1]) + DigitVal(ts[2]) ELSE DigitVal(ts[1])
        k == IF two THEN 4 ELSE 3
        mi == 10 * DigitVal(ts[k]) + DigitVal(ts[k + 1])
        pm == ts[k + 2] = "P"
    IN  IF h12 >= 1 /\ h12 <= 12 /\ mi <= 59
        THEN [ok |-> TRUE, h |-> (h12 % 12) + (IF pm THEN 12 ELSE 0), mi |-> mi]
        ELSE [ok |-> FALSE]

\* parse_end_time(question), with the year datetime.now() gives: a
\* timestamp, or None
parse_end_time(question, year) ==
    With(ReSearch(Chars(question)), LAMBDA match :
      IF ~match.found THEN None
      ELSE
      With(<<MonthOf(match.word), DayOf(match.day), ClockOf(match.time)>>, LAMBDA f :
        IF f[1] = 0 \/ f[2] = 0 \/ ~f[3].ok THEN None
        ELSE IF f[2] > DaysInMonth(year, f[1]) THEN None
        ELSE [t |-> "datetime",
              ts |-> Timestamp(year, f[1], f[2], f[3].h, f[3].mi) + HourOffset * 3600]))

----------------------------------------------------------------------------
(* Conversions *)

\* float("nan"): a float held as an integer outside the range of the
\* model's prices; a fraction num / den is NaN when den = 0
NaN == 999999999

\* float(s) for a str s: the value in thousandths
FloatLiteral(s) ==
    CASE s = "0.62" -> Ok(620)
      [] s = "nan" -> Ok(NaN)
      [] s = "0.38" -> Ok(380)
      [] s = "0.5" -> Ok(500)
      [] s = "1.0" -> Ok(1000)
      [] s = "0" -> Ok(0)
      [] s = "99.20" -> Ok(99200)
      [] s = "99.50" -> Ok(99500)
      [] s = "99.60" -> Ok(99600)
      [] s = "100.00" -> Ok(100000)
      [] s = "100.40" -> Ok(100400)
      [] s = "100.50" -> Ok(100500)
      [] s = "100.80" -> Ok(100800)
      [] s = "-100.00" -> Ok(-100000)
      [] s = "-100.50" -> Ok(-100500)
      [] OTHER -> Raise("ValueError")

\* int(s) for a str s
IntLiteral(s) ==
    CASE s = "0" -> Ok(0)
      [] s = "25" -> Ok(25)
      [] OTHER -> Raise("ValueError")

\* int(m) for a float m: truncation toward zero
Trunc(m) == IF m >= 0 THEN m \div 1000 ELSE -((-m) \div 1000)

\* float(v)
py_float(v) ==
    CASE v.t = "float" -> Ok(v.m)
      [] v.t = "int" -> Ok(v.n * 1000)
      [] v.t = "str" -> FloatLiteral(v.s)
      [] OTHER -> Raise("TypeError")

\* int(v)
py_int(v) ==
    CASE v.t = "int" -> Ok(v.n)
      [] v.t = "float" -> IF v.m = NaN THEN Raise("ValueError") ELSE Ok(Trunc(v.m))
      [] v.t = "str" -> IntLiteral(v.s)
      [] OTHER -> Raise("TypeError")

\* v[i] for a 0-based index i >= 0, and v[-1] as Index(v, -1)
Index(v, i) ==
    CASE v.t = "list" ->
             IF i = -1 /\ Len(v.xs) > 0 THEN Ok(v.xs[Len(v.xs)])
             ELSE IF i >= 0 /\ i < Len(v.xs) THEN Ok(v.xs[i + 1])
             ELSE Raise("IndexError")
      [] v.t = "str" ->
             IF i >= 0 /\ i < Len(Chars(v.s)) THEN Ok(PyStr(Chars(v.s)[i + 1]))
             ELSE Raise("IndexError")
      [] v.t = "dict" -> Raise("KeyError")
      [] OTHER -> Raise("TypeError")

\* json.loads(v): a str holding a JSON text gives the value it encodes
json_loads(v) ==
    IF v.t # "str" THEN Raise("TypeError")
    ELSE CASE v.s = "[]" -> Ok(PyList(<<>>))
           [] v.s = "[\"0.62\", \"0.38\"]" -> Ok(PyList(<<PyStr("0.62"), PyStr("0.38")>>))
           [] v.s = "[0.62, 0.38]" -> Ok(PyList(<<PyFloat(620), PyFloat(380)>>))
           [] v.s = "[\"n/a\"]" -> Ok(PyList(<<PyStr("n/a")>>))
           [] v.s = "[null]" -> Ok(PyList(<<None>>))
           [] v.s = "{}" -> Ok(EmptyDict)
           [] v.s = "{\"yes\": \"0.62\"}" -> Ok(PyDict([yes |-> PyStr("0.62")]))
           [] v.s = "0.62" -> Ok(PyFloat(620))
           [] v.s = "null" -> Ok(None)
           [] OTHER -> Raise("JSONDecodeError")

----------------------------------------------------------------------------
(* Configuration *)

MIN_TIME_TO_EXPIRY == 60
MAX_TIME_TO_EXPIRY == 120

ASSET_PATTERNS ==
    [BTC |-> <<"bitcoin up or down">>,
     ETH |-> <<"ethereum up or down">>,
     SOL |-> <<"solana up or down">>]

\* CONFIG_SCHEMA["min_momentum_pct"]: the default, in thousandths, and the
\* environment variable that overrides it
CONFIG_SCHEMA ==
    [min_momentum_pct |-> [default |-> 500, env |-> "SIMMER_SPRINT_MOMENTUM"]]

\* os.getenv(name)
getenv(e, name) == e[name]

\* The value of a CONFIG_SCHEMA option: the environment variable when it is
\* set, else the default.
ConfigValue(e, option) ==
    LET var == getenv(e, CONFIG_SCHEMA[option].env)
    IN  IF var.t = "None" THEN CONFIG_SCHEMA[option].default
        ELSE py_float(var).v

----------------------------------------------------------------------------
(* HTTP *)

GAMMA_URL == "https://gamma-api.polymarket.com/markets"
BINANCE_URL == "https://api.binance.com/api/v3/klines"

\* What the network does to a request: a response whose body is the JSON
\* text of a value, or one of the failures urlopen / read / json.loads raise.
NetOk(v) == [k |-> "ok", json |-> v]
NetFail(kind) == [k |-> kind]
NetFailures == {NetFail("URLError"), NetFail("timeout"), NetFail("HTTPError"),
                NetFail("JSONDecodeError")}

\* {"error": str(e)}
ErrorDict(e) == PyDict([error |-> PyStr(e)])

\* _api_request(url, data=data) when the network does n: the except clause
\* turns every exception into the error dict.
_api_request(url, data, n) ==
    IF Truthy(data) /\ data.t = "object" THEN ErrorDict("TypeError")
    ELSE IF n.k = "ok" THEN n.json
    ELSE ErrorDict(n.k)

----------------------------------------------------------------------------
(* discover_fast_markets *)

\* f"-{window}-" in slug
WindowInSlug(window, slug) ==
    LET tag == <<"-">> \o Chars(window) \o <<"-">>
    IN  CASE slug.t = "str" -> Ok(Contains(Chars(slug.s), tag))
          [] slug.t = "list" -> Ok(\E i \in 1..Len(slug.xs) :
                                      slug.xs[i].t = "str" /\ Chars(slug.xs[i].s) = tag)
          [] slug.t = "dict" -> Ok(\E k \in DOMAIN slug.kv : Chars(k) = tag)
          [] OTHER -> Raise("TypeError")

\* One pass of the loop body for the entry m: Raise(e), Ok(None) when the
\* entry is skipped, or Ok(the dict appended to results).
InTitle(asset, q) ==
    \E i \in 1..Len(ASSET_PATTERNS[asset]) : Contains(q, Chars(ASSET_PATTERNS[asset][i]))

DiscoverEntry(m, asset, window, year) ==
    IF m.t # "dict" THEN Raise("AttributeError")
    ELSE
    With(DictGet(m, "question", None), LAMBDA question :
      IF Truthy(question) /\ question.t # "str" THEN Raise("AttributeError")
      ELSE IF ~Truthy(question) \/ ~InTitle(asset, Lower(Chars(question.s))) THEN Ok(None)
      ELSE
      With(DictGet(m, "slug", PyStr("")), LAMBDA slug :
        With(WindowInSlug(window, slug), LAMBDA inSlug :
          IF ~inSlug.ok THEN inSlug
          ELSE IF ~inSlug.v THEN Ok(None)
          ELSE
          With(py_int(DictGet(m, "fee_rate_bps", PyInt(0))), LAMBDA fee :
            IF ~fee.ok THEN fee
            ELSE Ok([t |-> "dict",
                     question |-> question,
                     slug |-> slug,
                     end_time |-> parse_end_time(question.s, year),
                     outcome_prices |-> DictGet(m, "outcomePrices", PyStr("[]")),
                     fee_rate_bps |-> PyInt(fee.v)])))))

RECURSIVE DiscoverLoop(_, _, _, _, _, _)
DiscoverLoop(xs, i, results, asset, window, year) ==
    IF i > Len(xs) THEN Ok(results)
    ELSE With(DiscoverEntry(xs[i], asset, window, year), LAMBDA r :
           IF ~r.ok THEN r
           ELSE DiscoverLoop(xs, i + 1,
                             IF r.v.t = "None" THEN results ELSE Append(results, r.v),
                             asset, window, year))

\* discover_fast_markets without the isinstance check: the loop runs over
\* whatever _api_request returned
discover_unchecked(asset, window, n, year) ==
    With(_api_request(GAMMA_URL, None, n), LAMBDA data :
      IF IsList(data) THEN DiscoverLoop(data.xs, 1, <<>>, asset, window, year)
      ELSE IF data.t = "dict" /\ DOMAIN data.kv # {} THEN Raise("AttributeError")
      ELSE IF data.t = "dict" THEN Ok(<<>>)
      ELSE Raise("TypeError"))

\* discover_fast_markets(asset, window) when the network does n and the
\* year is `year`: Ok(the list of candidates) or Raise(e)
discover_fast_markets(asset, window, n, year) ==
    With(_api_request(GAMMA_URL, None, n), LAMBDA data :
      IF ~IsList(data) THEN Ok(<<>>)
      ELSE DiscoverLoop(data.xs, 1, <<>>, asset, window, year))

----------------------------------------------------------------------------
(* select_tradeable_market *)

\* (m["end_time"] - now).total_seconds()
Remaining(m, now) == m.end_time.ts - now

\* InWindow with the lower bound included (>= for >)
InWindow_LowerIncluded(remaining) ==
    MIN_TIME_TO_EXPIRY <= remaining /\ remaining <= MAX_TIME_TO_EXPIRY

\* MIN_TIME_TO_EXPIRY < remaining <= MAX_TIME_TO_EXPIRY
InWindow(remaining) ==
    MIN_TIME_TO_EXPIRY < remaining /\ remaining <= MAX_TIME_TO_EXPIRY

\* select_tradeable_market without the sort: the first candidate in feed
\* order
select_unsorted(ms, now) ==
    With({i \in 1..Len(ms) :
             Truthy(ms[i].end_time) /\ InWindow(Remaining(ms[i], now))}, LAMBDA candidates :
      IF candidates = {} THEN None ELSE ms[Least(candidates)])

\* select_tradeable_market(markets) at time now: the first of the
\* candidates with the least remaining time (sorted is stable), or None
select_tradeable_market(ms, now) ==
    With({i \in 1..Len(ms) :
             Truthy(ms[i].end_time) /\ InWindow(Remaining(ms[i], now))}, LAMBDA candidates :
      IF candidates = {} THEN None
      ELSE ms[CHOOSE i \in candidates :
                 \A j \in candidates :
                     \/ Remaining(ms[i], now) < Remaining(ms[j], now)
                     \/ Remaining(ms[i], now) = Remaining(ms[j], now) /\ i <= j])

----------------------------------------------------------------------------
(* get_binance_momentum *)

\* Direction with >= for >: a momentum of zero is "up"
Direction_ZeroUp(momentum) ==
    IF \/ momentum.num >= 0 /\ momentum.den > 0
       \/ momentum.num <= 0 /\ momentum.den < 0
    THEN "up" ELSE "down"

\* "up" if momentum > 0 else "down", for the fraction momentum
Direction(momentum) ==
    IF \/ momentum.num > 0 /\ momentum.den > 0
       \/ momentum.num < 0 /\ momentum.den < 0
    THEN "up" ELSE "down"

\* float(v[i][k]): the indexing and the conversion, whichever raises first
FloatAt(v, i, k) ==
    With(Index(v, i), LAMBDA row :
      IF ~row.ok THEN row
      ELSE With(Index(row.v, k), LAMBDA cell :
             IF ~cell.ok THEN cell ELSE py_float(cell.v)))

\* get_binance_momentum(symbol, lookback) when the network does n:
\* Ok(None), Ok(the signal dict) or Raise(e)
get_binance_momentum(symbol, lookback, n) ==
    With(_api_request(BINANCE_URL, None, n), LAMBDA candles :
      IF ~IsList(candles) \/ Len(candles.xs) < 2 THEN Ok(None)
      ELSE
      With(FloatAt(candles, 0, 1), LAMBDA open_price :
        IF ~open_price.ok THEN open_price
        ELSE
        With(FloatAt(candles, -1, 4), LAMBDA close_price :
          IF ~close_price.ok THEN close_price
          ELSE IF open_price.v = 0 THEN Raise("ZeroDivisionError")
          ELSE
          With(IF open_price.v = NaN \/ close_price.v = NaN
               THEN [num |-> 0, den |-> 0]
               ELSE [num |-> (close_price.v - open_price.v) * 100, den |-> open_price.v],
               LAMBDA momentum :
            Ok([t |-> "dict",
                momentum_pct |-> momentum,
                direction |-> Direction(momentum),
                price_now |-> close_price.v])))))

\* abs(signal["momentum_pct"]) < threshold, threshold in thousandths
WeakMomentum(momentum, threshold) ==
    Abs(momentum.num) * 1000 < threshold * Abs(momentum.den)

----------------------------------------------------------------------------
(* run_fast_market_strategy, lines 195-196 *)

\* the same with prices[-1] for prices[0]
ParseYesPrice_Last(m) ==
    With(json_loads(IF Truthy(m.outcome_prices) THEN m.outcome_prices ELSE PyStr("[]")),
         LAMBDA prices :
      IF ~prices.ok THEN prices
      ELSE IF ~Truthy(prices.v) THEN Ok(500)
      ELSE With(Index(prices.v, -1), LAMBDA p0 :
             IF p0.ok THEN py_float(p0.v) ELSE p0))

\* prices = json.loads(market["outcome_prices"] or "[]")
\* yes_price = float(prices[0]) if prices else 0.5
ParseYesPrice(m) ==
    With(json_loads(IF Truthy(m.outcome_prices) THEN m.outcome_prices ELSE PyStr("[]")),
         LAMBDA prices :
      IF ~prices.ok THEN prices
      ELSE IF ~Truthy(prices.v) THEN Ok(500)
      ELSE With(Index(prices.v, 0), LAMBDA p0 :
             IF p0.ok THEN py_float(p0.v) ELSE p0))

----------------------------------------------------------------------------
(* sleep_until_next_minute *)

\* microseconds in a second: timedelta counts in microseconds
Mega == 1000000

\* now.replace(second=0, microsecond=0) + timedelta(minutes=1), in seconds
NextMinute_SameMinute(now) == now.ts - (now.ts % 60)
NextMinute(now) == now.ts - (now.ts % 60) + 60

\* sleep_until_next_minute(offset) called at now = [ts, us]: the argument of
\* time.sleep, in microseconds
sleep_until_next_minute(now, offset) ==
    With((NextMinute(now) - now.ts) * Mega - now.us + offset * Mega, LAMBDA sleep_sec :
      IF sleep_sec > 0 THEN sleep_sec ELSE 0)

\* the second in which a sleep of sleep_sec microseconds begun at now ends
WakeTime(now, sleep_sec) == now.ts + (now.us + sleep_sec) \div Mega

----------------------------------------------------------------------------
(* Inputs: the environment, the clock and what the two feeds answer *)

Envs ==
    [SIMMER_API_KEY : {None, PyStr("sk_live")},
     RAILWAY_SIMMER_API_KEY : {None, PyStr("sk_live")},
     SIMMER_SPRINT_MOMENTUM : {None, PyStr("0.5"), PyStr("1.0")}]

Q_0905 == "Bitcoin Up or Down - January 5 9:00AM-9:05AM"
Q_0910 == "Bitcoin Up or Down - January 5 9:05AM-9:10AM"
Q_JAN == "BITCOIN UP OR DOWN - Jan 5 9:00AM-9:05AM"
Q_NOTIME == "Bitcoin Up or Down?"
Q_ETH == "Ethereum Up or Down - January 5 9:00AM-9:05AM"
Q_DOWN2 == "Bitcoin Up or Down 2 - January 5 9:00AM-9:05AM"
Q_FEB30 == "Bitcoin Up or Down - February 30 9:00AM-9:05AM"
Q_1305 == "Bitcoin Up or Down - January 5 1:00PM-13:05PM"
Q_NODASH == "Bitcoin Up or Down - January 5 9:05AM"
SLUG_5M == "btc-updown-5m-1767621900"
SLUG_15M == "btc-updown-15m-1767621900"
PRICES == "[\"0.62\", \"0.38\"]"

\* 5 January of BaseYear, 14:05:00 UTC: the expiry parsed from Q_0905
T_0905 == Timestamp(BaseYear, 1, 5, 14, 5)

\* the times a cycle may run at, by the seconds left to T_0905
Nows == {T_0905 - r : r \in {-200, 45, 60, 61, 90, 120, 121}}

\* a feed entry with the four fields the code reads
Entry(question, slug, prices, fee) ==
    PyDict([question |-> question, slug |-> slug,
            outcomePrices |-> prices, fee_rate_bps |-> fee])
\* a feed entry without a fee field
EntryNoFee(question, slug, prices) ==
    PyDict([question |-> question, slug |-> slug, outcomePrices |-> prices])

\* the raw outcomePrices values of a feed entry
PriceValues ==
    {PyStr(PRICES), PyStr("[0.62, 0.38]"), PyStr("[]"), PyStr(""), None,
     PyStr("not json"), PyStr("[\"n/a\"]"), PyStr("[null]"), PyStr("{}"),
     PyStr("{\"yes\": \"0.62\"}"), PyStr("0.62"),
     PyList(<<PyStr("0.62"), PyStr("0.38")>>)}

GammaBodies ==
    {EmptyDict, None, PyList(<<>>)}
    \cup {PyList(<<EntryNoFee(PyStr(Q_0905), PyStr(SLUG_5M), pv)>>) : pv \in PriceValues}
    \cup {PyList(<<PyDict([question |-> PyStr(Q_0905), slug |-> PyStr(SLUG_5M)])>>),
          PyList(<<Entry(PyStr(Q_ETH), PyStr(SLUG_5M), PyStr(PRICES), PyInt(0)),
                   Entry(PyStr(Q_0905), PyStr(SLUG_5M), PyStr(PRICES), PyInt(25))>>),
          PyList(<<Entry(PyStr(Q_0905), PyStr(SLUG_15M), PyStr(PRICES), PyInt(0))>>),
          PyList(<<Entry(PyStr(Q_NOTIME), PyStr(SLUG_5M), PyStr(PRICES), PyInt(0)),
                   Entry(PyStr(Q_0910), PyStr(SLUG_5M), PyStr("[0.62, 0.38]"), PyStr("25"))>>),
          PyList(<<Entry(PyStr(Q_JAN), PyStr(SLUG_5M), PyStr(PRICES), PyInt(0))>>),
          PyList(<<Entry(PyStr(Q_0910), PyStr(SLUG_5M), PyStr(PRICES), PyFloat(2500)),
                   Entry(PyStr(Q_0905), PyStr(SLUG_5M), PyStr("[0.62, 0.38]"), PyInt(0)),
                   Entry(PyStr(Q_0905), PyStr(SLUG_5M), PyStr(PRICES), PyInt(25))>>),
          PyList(<<Entry(PyStr(Q_DOWN2), PyStr(SLUG_5M), PyStr(PRICES), PyInt(0)),
                   Entry(PyStr(Q_FEB30), PyStr(SLUG_5M), PyStr(PRICES), PyInt(0)),
                   Entry(PyStr(Q_1305), PyStr(SLUG_5M), PyStr(PRICES), PyInt(0)),
                   Entry(PyStr(Q_NODASH), PyStr(SLUG_5M), PyStr(PRICES), PyInt(0)),
                   Entry(PyStr(Q_0905), PyStr(SLUG_5M), PyStr(PRICES), PyInt(0))>>),
          PyList(<<PyInt(42)>>),
          PyList(<<EntryNoFee(PyStr(Q_0905), PyStr(SLUG_5M), PyStr(PRICES)), None>>),
          PyList(<<PyDict([question |-> PyInt(123), slug |-> PyStr(SLUG_5M)])>>),
          PyList(<<PyDict([slug |-> PyStr(SLUG_5M)])>>),
          PyList(<<PyDict([question |-> PyStr(Q_0905)])>>),
          PyList(<<PyDict([question |-> PyStr(Q_0905), slug |-> None])>>),
          PyList(<<Entry(PyStr(Q_0905), PyStr(SLUG_5M), PyStr(PRICES), None)>>),
          PyList(<<Entry(PyStr(Q_0905), PyStr(SLUG_5M), PyStr(PRICES), PyStr("n/a"))>>)}

GammaNet == NetFailures \cup {NetOk(b) : b \in GammaBodies}

\* a candle: open time, open, high, low, close
Candle(open, close) == PyList(<<PyInt(0), open, PyStr("100.80"), PyStr("99.20"), close>>)

ClosePrices == {"99.20", "99.50", "99.60", "100.00", "100.40", "100.50", "100.80"}

BinanceBodies ==
    {PyDict([code |-> PyInt(-1121)]), None, PyList(<<>>),
     PyList(<<Candle(PyStr("100.00"), PyStr("100.80"))>>)}
    \cup {PyList(<<Candle(PyStr("100.00"), PyStr("99.20")),
                   Candle(PyStr("99.50"), PyStr(c))>>) : c \in ClosePrices}
    \cup {PyList(<<Candle(PyStr("100.00"), PyStr("99.20")),
                   Candle(PyStr("99.20"), PyStr("99.20")),
                   Candle(PyStr("99.20"), PyStr("100.80"))>>),
          PyList(<<Candle(PyStr("99.50"), PyStr("99.20")),
                   Candle(PyStr("100.00"), PyStr("99.50"))>>),
          PyList(<<Candle(PyStr("-100.00"), PyStr("99.20")),
                   Candle(PyStr("99.50"), PyStr("-100.50"))>>),
          PyList(<<PyList(<<PyInt(0)>>), Candle(PyStr("100.00"), PyStr("100.80"))>>),
          PyList(<<Candle(PyStr("n/a"), PyStr("100.80")),
                   Candle(PyStr("100.00"), PyStr("100.80"))>>),
          PyList(<<Candle(None, PyStr("100.80")),
                   Candle(PyStr("100.00"), PyStr("100.80"))>>),
          PyList(<<Candle(PyStr("0"), PyStr("100.80")),
                   Candle(PyStr("100.00"), PyStr("100.80"))>>),
          PyList(<<Candle(PyStr("nan"), PyStr("100.80")),
                   Candle(PyStr("100.00"), PyStr("100.80"))>>),
          PyList(<<Candle(PyStr("100.00"), PyStr("100.80")),
                   PyList(<<PyInt(0), PyStr("100.00"), PyStr("100.80"), PyStr("99.20")>>)>>),
          PyList(<<Candle(PyStr("100.00"), PyStr("100.80")),
                   Candle(PyStr("100.00"), PyStr("n/a"))>>),
          PyList(<<Candle(PyStr("100.00"), PyStr("100.80")),
                   PyDict([open |-> PyStr("100.00"), close |-> PyStr("100.80")])>>),
          PyList(<<None, None>>)}

BinanceNet == NetFailures \cup {NetOk(b) : b \in BinanceBodies}

\* the seconds a cycle may take, from its start to the datetime.now() of
\* sleep_until_next_minute, and the microsecond that call may read
CycleSeconds == {0, 59}
Micros == {0, 999999}

\* the model follows the process until MaxMinutes minutes after T_0905
MaxMinutes == 6

----------------------------------------------------------------------------
(* The process: main_loop and the steps of run_fast_market_strategy *)

\* get_api_key(): the key, or SystemExit from sys.exit(1)
get_api_key(e) ==
    With(IF Truthy(getenv(e, "SIMMER_API_KEY")) THEN getenv(e, "SIMMER_API_KEY")
         ELSE getenv(e, "RAILWAY_SIMMER_API_KEY"), LAMBDA key :
      IF ~Truthy(key) THEN Raise("SystemExit") ELSE Ok(key))

\* `except Exception` catches e: SystemExit derives from BaseException only
IsException(e) == e # "SystemExit"

\* the momentum threshold the gate on line 203 compares with, in thousandths
GateThreshold == 500

\* "yes" if signal["direction"] == "up" else "no"
Side(sig) == IF sig.direction = "up" THEN "yes" ELSE "no"

Line(k) == [k |-> k]

\* side.upper()
Upper(side) == IF side = "yes" THEN "YES" ELSE "NO"

\* n / d for n >= 0, d > 0, rounded to the nearest integer, a tie to the even one
RoundHalfEven(n, d) ==
    IF 2 * (n % d) > d THEN (n \div d) + 1
    ELSE IF 2 * (n % d) < d THEN n \div d
    ELSE (n \div d) + ((n \div d) % 2)

\* the digits of a fixed-point text: sign, integer part, and the fraction
\* as a number of 10^-places
Fixed(sign, units, scale) ==
    [sign |-> sign, whole |-> units \div scale, frac |-> units % scale]

\* f"{momentum:+.2f}" for the fraction momentum
FormatMomentum(momentum) ==
    IF momentum.den = 0 THEN [sign |-> "+", whole |-> NaN, frac |-> 0]
    ELSE
    Fixed(IF \/ momentum.num < 0 /\ momentum.den > 0
             \/ momentum.num > 0 /\ momentum.den < 0 THEN "-" ELSE "+",
          RoundHalfEven(Abs(momentum.num) * 100, Abs(momentum.den)), 100)

\* f"{yes_price:.3f}" for a yes_price in thousandths
FormatPrice(price) ==
    IF price = NaN THEN [sign |-> "", whole |-> NaN, frac |-> 0]
    ELSE
    Fixed(IF price < 0 THEN "-" ELSE "", Abs(price), 1000)

Init ==
    /\ env \in Envs
    /\ args \in [live : BOOLEAN]
    /\ pc = "start"
    /\ clock \in Nows
    /\ resp = Unbound
    /\ net = NoNet
    /\ markets = Unbound
    /\ market = Unbound
    /\ yes_price = Unbound
    /\ signal = Unbound
    /\ exc = NoExc
    /\ out = <<>>
    /\ reqs = <<>>
    /\ nap = Unbound

\* the locals of run_fast_market_strategy are gone once it returns or raises
DropLocals ==
    /\ markets' = Unbound
    /\ market' = Unbound
    /\ yes_price' = Unbound
    /\ signal' = Unbound

\* the same with the locals kept in module globals: a return leaves them set
Return_KeepsLocals(lines) ==
    /\ pc' = "sleep"
    /\ out' = out \o lines
    /\ UNCHANGED <<markets, market, yes_price, signal, exc>>

\* run_fast_market_strategy returns after printing `lines`
Return(lines) ==
    /\ pc' = "sleep"
    /\ out' = out \o lines
    /\ DropLocals
    /\ UNCHANGED exc

\* run_fast_market_strategy raises e
Raises(e) ==
    /\ pc' = "except"
    /\ exc' = e
    /\ DropLocals
    /\ UNCHANGED out

\* main_loop calls run_fast_market_strategy: lines 186-187
ResolveCredentials ==
    /\ pc = "start"
    /\ resp' = Unbound
    /\ net' = NoNet
    /\ reqs' = <<>>
    /\ nap' = Unbound
    /\ UNCHANGED <<env, args, clock>>
    /\ \E key \in {get_api_key(env)} :
          IF key.ok
          THEN /\ pc' = "request_markets"
               /\ out' = <<Line("tick")>>
               /\ UNCHANGED <<markets, market, yes_price, signal, exc>>
          ELSE /\ pc' = "except"
               /\ exc' = key.e
               /\ out' = <<Line("no_api_key")>>
               /\ DropLocals

\* urlopen is given a request for url: lines 91-92
Requested(url) == Append(reqs, [url |-> url, net |-> NoNet])
\* the request in flight ends the way n says: lines 92-95
Answered(n) == [reqs EXCEPT ![Len(reqs)].net = n]

\* lines 189, 113: discover_fast_markets calls _api_request
RequestMarkets ==
    /\ pc = "request_markets"
    /\ pc' = "discover"
    /\ reqs' = Requested(GAMMA_URL)
    /\ UNCHANGED <<env, args, clock, resp, net, markets, market, yes_price, signal,
                   exc, out, nap>>

\* the same with one retry: a failed request is sent once more
Discover_Retries ==
    /\ pc = "discover"
    /\ \E n \in GammaNet :
          /\ net' = n
          /\ resp' = _api_request(GAMMA_URL, None, n)
          /\ IF n \in NetFailures /\ Len(reqs) = 1
             THEN /\ reqs' = Append(Answered(n), [url |-> GAMMA_URL, net |-> NoNet])
                  /\ UNCHANGED <<pc, markets, market, yes_price, signal, exc, out>>
             ELSE /\ reqs' = Answered(n)
                  /\ \E r \in {discover_fast_markets("BTC", "5m", n, YearOf(clock))} :
                        IF r.ok
                        THEN /\ markets' = r.v
                             /\ pc' = "select"
                             /\ UNCHANGED <<market, yes_price, signal, exc, out>>
                        ELSE Raises(r.e)
    /\ UNCHANGED <<env, args, clock, nap>>

\* lines 113-130, 189: the answer arrives and discover_fast_markets goes on
Discover ==
    /\ pc = "discover"
    /\ \E n \in GammaNet :
          /\ net' = n
          /\ reqs' = Answered(n)
          /\ resp' = _api_request(GAMMA_URL, None, n)
          /\ \E r \in {discover_fast_markets("BTC", "5m", n, YearOf(clock))} :
                IF r.ok
                THEN /\ markets' = r.v
                     /\ pc' = "select"
                     /\ UNCHANGED <<market, yes_price, signal, exc, out>>
                ELSE Raises(r.e)
    /\ UNCHANGED <<env, args, clock, nap>>

\* the same without the `return` of line 193
Select_FallsThrough ==
    /\ pc = "select"
    /\ market' = select_tradeable_market(markets, clock)
    /\ pc' = "price"
    /\ out' = IF market'.t = "None" THEN Append(out, Line("no_market")) ELSE out
    /\ UNCHANGED <<env, args, clock, resp, net, reqs, nap, markets, yes_price, signal, exc>>

\* lines 190-193
Select ==
    /\ pc = "select"
    /\ \E m \in {select_tradeable_market(markets, clock)} :
          IF m.t = "None"
          THEN Return(<<Line("no_market")>>)
          ELSE /\ market' = m
               /\ pc' = "price"
               /\ UNCHANGED <<markets, yes_price, signal, exc, out>>
    /\ UNCHANGED <<env, args, clock, resp, net, reqs, nap>>

\* lines 195-196
ParsePrice ==
    /\ pc = "price"
    /\ \E r \in {ParseYesPrice(market)} :
          IF r.ok
          THEN /\ yes_price' = r.v
               /\ pc' = "request_candles"
               /\ UNCHANGED <<markets, market, signal, exc, out>>
          ELSE Raises(r.e)
    /\ UNCHANGED <<env, args, clock, resp, net, reqs, nap>>

\* lines 198, 168: get_binance_momentum calls _api_request
RequestCandles ==
    /\ pc = "request_candles"
    /\ pc' = "momentum"
    /\ reqs' = Requested(BINANCE_URL)
    /\ UNCHANGED <<env, args, clock, resp, net, markets, market, yes_price, signal,
                   exc, out, nap>>

\* lines 168-179, 198-201: the answer arrives and get_binance_momentum goes on
FetchMomentum ==
    /\ pc = "momentum"
    /\ \E n \in BinanceNet :
          /\ net' = n
          /\ reqs' = Answered(n)
          /\ resp' = _api_request(BINANCE_URL, None, n)
          /\ \E r \in {get_binance_momentum("BTCUSDT", 5, n)} :
                IF ~r.ok THEN Raises(r.e)
                ELSE IF r.v.t = "None" THEN Return(<<Line("no_momentum")>>)
                ELSE /\ signal' = r.v
                     /\ pc' = "gate"
                     /\ UNCHANGED <<markets, market, yes_price, exc, out>>
    /\ UNCHANGED <<env, args, clock, nap>>

\* lines 203-211
Gate ==
    /\ pc = "gate"
    /\ IF WeakMomentum(signal.momentum_pct, GateThreshold)
       THEN Return(<<Line("weak_momentum")>>)
       ELSE Return(<<[k |-> "signal", side |-> Upper(Side(signal)),
                      momentum |-> FormatMomentum(signal.momentum_pct),
                      yes |-> FormatPrice(yes_price)]>>
                   \o (IF args.live THEN <<>> ELSE <<Line("dry_run")>>))
    /\ UNCHANGED <<env, args, clock, resp, net, reqs, nap>>

\* lines 221-222, or the exception leaving main_loop and ending the process
Except ==
    /\ pc = "except"
    /\ IF IsException(exc)
       THEN /\ pc' = "sleep"
            /\ out' = Append(out, [k |-> "fatal", e |-> exc])
       ELSE /\ pc' = "exited"
            /\ UNCHANGED out
    /\ UNCHANGED <<env, args, clock, resp, net, markets, market, yes_price, signal, exc,
                   reqs, nap>>

\* line 223: sleep_until_next_minute(offset=2) reads the time, sleeps for
\* sleep_sec and returns; then the loop starts over
Sleep ==
    /\ pc = "sleep"
    /\ pc' = "start"
    /\ \E d \in CycleSeconds : \E us \in Micros :
          \E now \in {[ts |-> clock + d, us |-> us]} :
             /\ nap' = [now |-> now, sleep_sec |-> sleep_until_next_minute(now, 2)]
             /\ clock' = WakeTime(now, sleep_until_next_minute(now, 2))
    /\ clock' <= T_0905 + 60 * MaxMinutes
    /\ exc' = NoExc
    /\ UNCHANGED <<env, args, resp, net, markets, market, yes_price, signal, out, reqs>>

Next ==
    \/ ResolveCredentials
    \/ RequestMarkets
    \/ Discover
    \/ Select
    \/ ParsePrice
    \/ RequestCandles
    \/ FetchMomentum
    \/ Gate
    \/ Except
    \/ Sleep

Spec == Init /\ [][Next]_vars

----------------------------------------------------------------------------
(* select_tradeable_market on its own: any sequence of candidates *)

MaxMarkets == 4

\* the seconds a candidate has left when select_tradeable_market runs
SelectRemaining == {45, 60, 61, 90, 119, 120, 121, 200}

SelectEndTimes ==
    {None} \cup {[t |-> "datetime", ts |-> T_0905 + r] : r \in SelectRemaining}

\* the i-th candidate of a list, as discover_fast_markets builds it
Candidate(i, end_time) ==
    [t |-> "dict", question |-> PyStr(Q_0905), slug |-> PyStr(SLUG_5M),
     end_time |-> end_time, outcome_prices |-> PyStr(PRICES), fee_rate_bps |-> PyInt(i)]

InitSelect ==
    /\ env = [SIMMER_API_KEY |-> PyStr("sk_live"), RAILWAY_SIMMER_API_KEY |-> None,
              SIMMER_SPRINT_MOMENTUM |-> None]
    /\ args = [live |-> FALSE]
    /\ pc = "select"
    /\ clock = T_0905
    /\ resp = Unbound
    /\ net = NoNet
    /\ \E k \in 0..MaxMarkets :
          \E ends \in [1..k -> SelectEndTimes] :
             markets = [i \in 1..k |-> Candidate(i, ends[i])]
    /\ market = Unbound
    /\ yes_price = Unbound
    /\ signal = Unbound
    /\ exc = NoExc
    /\ out = <<Line("tick")>>
    /\ reqs = <<>>
    /\ nap = Unbound

SpecSelect == InitSelect /\ [][Select]_vars

----------------------------------------------------------------------------
(* Claims *)

\* neither SIMMER_API_KEY nor RAILWAY_SIMMER_API_KEY is set
KeyAbsent == env.SIMMER_API_KEY = None /\ env.RAILWAY_SIMMER_API_KEY = None

LastLine == IF out = <<>> THEN Line("") ELSE out[Len(out)]

\* C1: when neither key variable is set, a cycle makes no request, the
\* process does not terminate, and the scheduler sleeps and starts another
\* cycle: the process is only ever at the start of a cycle, handing the
\* failure to the scheduler, or asleep.
C1_AbsentKeyIdles ==
    KeyAbsent => /\ net = NoNet
                 /\ pc \in {"start", "except", "sleep"}

\* C2: whatever a cycle raises, the scheduler catches it, logs it and goes
\* on to sleep: the step taken from the handler always prints the fatal line
\* and sleeps, so the process never terminates because of a cycle.
C2_CycleErrorsCaught ==
    [][pc = "except" =>
          /\ pc' = "sleep"
          /\ out' = Append(out, [k |-> "fatal", e |-> exc])]_vars

\* the candidates of ms whose expiry is known and 60 < expiry - now <= 120
Qualifying(ms, now) ==
    {i \in 1..Len(ms) :
        /\ ms[i].end_time # None
        /\ 60 < ms[i].end_time.ts - now
        /\ ms[i].end_time.ts - now <= 120}

C4_SelectSoonest ==
    pc = "price" =>
        \A i \in Qualifying(markets, clock) :
            market.end_time.ts - clock <= markets[i].end_time.ts - clock

\* C4's case: remaining times 45, 90, 200, 119 select the 90.
C4_Witness ==
    /\ pc = "price"
    /\ Len(markets) = 4
    /\ \A i \in 1..4 : markets[i].end_time # None
    /\ [i \in 1..4 |-> markets[i].end_time.ts - clock] = <<45, 90, 200, 119>>
    /\ market = markets[2]

\* the gate let a decision through: the cycle printed the signal line
Emitted(lines) == \E i \in 1..Len(lines) : lines[i].k = "signal"

\* C5: with a market selected and a signal obtained, the cycle emits a
\* decision if and only if |momentum| >= the configured min_momentum_pct
\* (the default 0.5 unless SIMMER_SPRINT_MOMENTUM overrides it).
C5_GateAtConfiguredThreshold ==
    [][pc = "gate" =>
          (Emitted(out') <=>
              ~WeakMomentum(signal.momentum_pct, ConfigValue(env, "min_momentum_pct")))]_vars

\* the raw outcome-price data is a str holding a JSON list whose first
\* element is a number or a numeric str
IsNumeric(v) ==
    \/ v.t \in {"int", "float"}
    \/ v.t = "str" /\ FloatLiteral(v.s).ok
WellFormedPrices(raw) ==
    /\ raw.t = "str"
    /\ json_loads(raw).ok
    /\ json_loads(raw).v.t = "list"
    /\ Len(json_loads(raw).v.xs) > 0
    /\ IsNumeric(json_loads(raw).v.xs[1])

\* C6: the price-parsing step never raises; on malformed outcome-price data
\* the yes-price is 0.5 and the cycle goes on to the momentum fetch.
C6_MalformedPriceDefaults ==
    [][pc = "price" =>
          /\ pc' = "request_candles"
          /\ ~WellFormedPrices(market.outcome_prices) => yes_price' = 500]_vars

\* C7: whatever the discovery feed answers, discover_fast_markets returns a
\* sequence and raises nothing; the sequence is empty when the feed failed
\* or did not answer a list.
C7_DiscoveryNeverRaises ==
    [][pc = "discover" =>
          /\ pc' = "select"
          /\ exc' = NoExc
          /\ ~IsList(resp') => markets' = <<>>]_vars

\* the failure sentinel: a dict with the key "error"
IsSentinel(v) == v.t = "dict" /\ DOMAIN v.kv = {"error"}

\* the request bodies _api_request may be given
RequestData == {None, EmptyDict, PyDict([side |-> PyStr("yes")]), PyObject}

\* C8: _api_request returns the failure sentinel, and raises nothing, when
\* the request fails or its body cannot be encoded; and after a failed
\* request the cycle has no candidates (discovery) or no signal (candles):
\* nothing is selected, nothing emitted, nothing raised.
C8_FetchFailureIsNoData ==
    /\ \A d \in RequestData : \A n \in GammaNet \cup BinanceNet :
          (n \in NetFailures \/ d = PyObject) => IsSentinel(_api_request(GAMMA_URL, d, n))
    /\ net \in NetFailures =>
          /\ IsSentinel(resp)
          /\ exc = NoExc
          /\ pc \in {"select", "sleep", "start"}
          /\ pc = "select" => markets = <<>>
          /\ pc # "select" => LastLine.k \in {"no_market", "no_momentum"}
          /\ market = Unbound /\ signal = Unbound
          /\ ~Emitted(out)

\* C8's case: the candle request timed out and the cycle idled.
C8_Witness ==
    /\ net = NetFail("timeout")
    /\ pc = "sleep"
    /\ LastLine.k = "no_momentum"

\* the candle at (0-based) row i has a number or numeric str at index k
NumericCell(candles, i, k) ==
    /\ candles[i].t = "list"
    /\ Len(candles[i].xs) > k
    /\ IsNumeric(candles[i].xs[k + 1])
WellFormedCandles(v) ==
    /\ v.t = "list"
    /\ Len(v.xs) >= 2
    /\ NumericCell(v.xs, 1, 1)
    /\ NumericCell(v.xs, Len(v.xs), 4)

\* C9: a candle response that is no list, has fewer than 2 candles, or has
\* no numeric open (first candle, index 1) or close (last candle, index 4)
\* gives "no signal": the cycle idles on the no-momentum branch and the
\* momentum step raises nothing.
C9_MalformedCandlesNoSignal ==
    [][(pc = "momentum" /\ ~WellFormedCandles(resp')) =>
          /\ pc' = "sleep"
          /\ exc' = NoExc
          /\ out' = Append(out, Line("no_momentum"))]_vars

\* the first open and last close of a well-formed candle list, in thousandths
FirstOpen(v) == py_float(v.xs[1].xs[2]).v
LastClose(v) == py_float(v.xs[Len(v.xs)].xs[5]).v

\* C10: for a list of at least 2 candles with a non-zero first open, the
\* direction is "up" if and only if (last close - first open) / first open
\* is > 0, and "down" otherwise; equal close and open give "down".  (With
\* a NaN price the quotient is NaN, which is not > 0.)
C10_DirectionUpIffPositive ==
    pc = "gate" =>
        /\ signal.direction \in {"up", "down"}
        /\ signal.direction = "up" <=>
              /\ NaN \notin {FirstOpen(resp), LastClose(resp)}
              /\ \/ LastClose(resp) > FirstOpen(resp) /\ FirstOpen(resp) > 0
                 \/ LastClose(resp) < FirstOpen(resp) /\ FirstOpen(resp) < 0
        /\ LastClose(resp) = FirstOpen(resp) => signal.direction = "down"

\* C10's case: the last close equals the first open and the direction is
\* "down".
C10_Witness ==
    /\ pc = "gate"
    /\ LastClose(resp) = FirstOpen(resp)
    /\ signal.momentum_pct.num = 0
    /\ signal.direction = "down"

\* the expiry discovery attached to the candidates with the title q
ExpiriesOf(q) ==
    {markets[i].end_time : i \in {k \in 1..Len(markets) : markets[k].question = PyStr(q)}}

\* C11 as stated: for the title "Bitcoin Up or Down - January 5
\* 9:00AM-9:05AM" parse_end_time returns 14:00 UTC (9:00 plus 5 hours) on
\* January 5 of the current UTC year: the clock time is the first, "9:00AM".
C11_FirstTimeParsed ==
    pc = "select" =>
        \A e \in ExpiriesOf(Q_0905) :
            e = [t |-> "datetime", ts |-> Timestamp(YearOf(clock), 1, 5, 14, 0)]

\* C11 amended: for that title parse_end_time returns 14:05 UTC (9:05 plus 5
\* hours) on January 5 of the current UTC year: the clock time is the one
\* after the hyphen, "9:05AM", not "9:00AM".
C11_EndTimeParsed ==
    pc = "select" =>
        \A e \in ExpiriesOf(Q_0905) :
            e = [t |-> "datetime", ts |-> Timestamp(YearOf(clock), 1, 5, 14, 5)]

\* C11's case: discovery returned a candidate with that title.
C11_Witness ==
    /\ pc = "select"
    /\ ExpiriesOf(Q_0905) # {}

\* C12: every Strategy Cycle, the first one after process start included,
\* starts right after a completed sleep_until_next_minute, 2 s past a
\* top-of-minute boundary: no cycle starts without that sleep before it.
C12_SleepBeforeEveryCycle ==
    [][(pc = "start" /\ pc' # "start") =>
          /\ nap # Unbound
          /\ clock = WakeTime(nap.now, nap.sleep_sec)
          /\ clock % 60 = 2]_vars

\* either key variable holds a key
KeyPresent == ~KeyAbsent

\* the feed answers for which discovery returns exactly one candidate, with
\* the outcome prices ["0.62", "0.38"] and an expiry `left` seconds after now
OneMarket(n, now, left) ==
    With(discover_fast_markets("BTC", "5m", n, YearOf(now)), LAMBDA r :
      /\ r.ok
      /\ Len(r.v) = 1
      /\ r.v[1].outcome_prices = PyStr(PRICES)
      /\ r.v[1].end_time # None
      /\ r.v[1].end_time.ts - now = left)

\* the times a cycle can start at: process start, or 2 s past a minute
Clocks == Nows \cup {T_0905 + 60 * k + 2 : k \in (0 - 4)..MaxMinutes}

\* the feed answers and cycle times of C13's scenario
OneMarketIn90 ==
    UNION {IF OneMarket(x[1], x[2], 90) THEN {x} ELSE {} : x \in GammaNet \X Clocks}

\* the candle answers whose momentum is -0.8%
MomentumMinus08(n) ==
    /\ WellFormedCandles(_api_request(BINANCE_URL, None, n))
    /\ FirstOpen(_api_request(BINANCE_URL, None, n)) > 0
    /\ FirstOpen(_api_request(BINANCE_URL, None, n)) # NaN
    /\ LastClose(_api_request(BINANCE_URL, None, n)) # NaN
    /\ (LastClose(_api_request(BINANCE_URL, None, n))
           - FirstOpen(_api_request(BINANCE_URL, None, n))) * 1000
          = (0 - 8) * FirstOpen(_api_request(BINANCE_URL, None, n))

\* C13: with a key present, one BTC market 90 s from expiry with outcome
\* prices ["0.62", "0.38"], and a momentum of -0.8%, the cycle goes through
\* to the candle request and prints the decision NO, momentum -0.80%, YES
\* price 0.620.
C13_EndToEnd ==
    (pc \in {"sleep", "except"} /\ KeyPresent /\ Len(reqs) >= 1
        /\ <<reqs[1].net, clock>> \in OneMarketIn90) =>
       /\ Len(reqs) = 2
       /\ MomentumMinus08(reqs[2].net) =>
             /\ pc = "sleep"
             /\ Len(out) >= 2
             /\ out[2] = [k |-> "signal", side |-> "NO",
                          momentum |-> [sign |-> "-", whole |-> 0, frac |-> 80],
                          yes |-> [sign |-> "", whole |-> 0, frac |-> 620]]

\* C13's case: that cycle has run and printed its decision.
C13_Witness ==
    /\ pc = "sleep" /\ KeyPresent /\ Len(reqs) = 2
    /\ <<reqs[1].net, clock>> \in OneMarketIn90
    /\ MomentumMinus08(reqs[2].net)
    /\ Emitted(out)

\* the positions that may follow each position of the process: the next
\* step of the cycle, its early return (the sleep) or its exception
Order ==
    [start |-> {"request_markets", "except"},
     request_markets |-> {"discover"},
     discover |-> {"select", "except"},
     select |-> {"price", "sleep"},
     price |-> {"request_candles", "except"},
     request_candles |-> {"momentum"},
     momentum |-> {"gate", "sleep", "except"},
     gate |-> {"sleep"},
     except |-> {"sleep", "exited"},
     sleep |-> {"start"},
     exited |-> {}]

\* the requests the network has not answered yet
InFlight(rs) == {i \in 1..Len(rs) : rs[i].net = NoNet}

\* C14: the steps of a cycle happen in the order credentials, discovery,
\* selection, price, candles, gate, decision; the candle feed is requested
\* only once a market is selected, a decision is printed only by the gate of
\* a cycle that obtained a signal, at most one request is in flight, and the
\* sleep begins only when the cycle is over: nothing in flight, no locals.
C14_StrictOrder ==
    [][/\ pc' # pc => pc' \in Order[pc]
       /\ Cardinality(InFlight(reqs')) <= 1
       /\ pc' = "price" => market'.t = "dict" /\ \E i \in 1..Len(markets) : market' = markets[i]
       /\ Len(reqs') > Len(reqs) =>
             /\ InFlight(reqs) = {}
             /\ reqs'[Len(reqs')].url = BINANCE_URL =>
                   /\ market.t = "dict"
                   /\ pc = "request_candles"
                   /\ Len(reqs) = 1 /\ reqs[1].url = GAMMA_URL
       /\ (Emitted(out') /\ ~Emitted(out)) =>
             /\ pc = "gate"
             /\ signal.t = "dict"
             /\ Len(reqs) = 2 /\ reqs[2].url = BINANCE_URL
       /\ pc' = "sleep" =>
             /\ InFlight(reqs') = {}
             /\ markets' = Unbound /\ market' = Unbound
             /\ signal' = Unbound
       /\ nap' # nap /\ nap' # Unbound => pc = "sleep"]_vars

\* C14's case: a cycle that began after a sleep went through every step and
\* printed its decision.
C14_Witness ==
    /\ pc = "sleep"
    /\ clock % 60 = 2
    /\ Len(reqs) = 2
    /\ Emitted(out)

\* the requests of rs that went to url
RequestsTo(rs, url) == {i \in 1..Len(rs) : rs[i].url = url}

\* C15: a cycle sends at most one request to the discovery feed and at most
\* one to the candle feed, whatever they answer; a feed is asked again only
\* in a later cycle, which starts after the scheduler has slept.
C15_NoRetryWithinTick ==
    [][/\ Cardinality(RequestsTo(reqs', GAMMA_URL)) <= 1
       /\ Cardinality(RequestsTo(reqs', BINANCE_URL)) <= 1
       /\ Len(reqs') > Len(reqs) =>
             /\ Len(reqs') = Len(reqs) + 1
             /\ RequestsTo(reqs, reqs'[Len(reqs')].url) = {}
       /\ (reqs # <<>> /\ Len(reqs') <= Len(reqs) /\ reqs' # reqs) =>
             \/ Len(reqs') = Len(reqs) /\ InFlight(reqs) # {} /\ InFlight(reqs') = {}
             \/ reqs' = <<>> /\ pc = "start" /\ nap # Unbound]_vars

\* C15's case: the candle request failed and the cycle ended with the two
\* requests it had sent.
C15_Witness ==
    /\ pc = "sleep"
    /\ Len(reqs) = 2
    /\ reqs[2].net \in NetFailures
    /\ reqs[2].url = BINANCE_URL

\* discovery and selection as one function of the feed's answer and the time
SelectStage(n, now) ==
    With(discover_fast_markets("BTC", "5m", n, YearOf(now)), LAMBDA r :
      IF ~r.ok THEN r ELSE Ok(select_tradeable_market(r.v, now)))

SelectTable == UNION {{<<x, SelectStage(x[1], x[2])>>} : x \in GammaNet \X Clocks}
Selected(n, now) == (CHOOSE p \in SelectTable : p[1] = <<n, now>>)[2]

\* how a cycle ends: where the process is, the lines printed, the exception
\* handled and the number of requests sent
Ended(at, lines, e, k) == [pc |-> at, out |-> lines, exc |-> e, requests |-> k]
Idle(reason, k) == Ended("sleep", <<Line("tick"), Line(reason)>>, NoExc, k)
Fatal(e, k) == Ended("sleep", <<Line("tick"), [k |-> "fatal", e |-> e]>>, e, k)

\* the outcome of a cycle as a function of its inputs only: the environment
\* e, the command line a, the time and the answers rs of the feeds it asked
CycleOutcome(e, a, now, rs) ==
    IF ~get_api_key(e).ok THEN Ended("exited", <<Line("no_api_key")>>, "SystemExit", 0)
    ELSE IF Len(rs) < 1 THEN Ended("none", <<>>, NoExc, 0)
    ELSE
    With(Selected(rs[1].net, now), LAMBDA m :
      IF ~m.ok THEN Fatal(m.e, 1)
      ELSE IF m.v.t = "None" THEN Idle("no_market", 1)
      ELSE
      With(ParseYesPrice(m.v), LAMBDA y :
        IF ~y.ok THEN Fatal(y.e, 1)
        ELSE IF Len(rs) < 2 THEN Ended("none", <<>>, NoExc, 1)
        ELSE
        With(get_binance_momentum("BTCUSDT", 5, rs[2].net), LAMBDA s :
          IF ~s.ok THEN Fatal(s.e, 2)
          ELSE IF s.v.t = "None" THEN Idle("no_momentum", 2)
          ELSE IF Abs(s.v.momentum_pct.num) * 1000 < 500 * Abs(s.v.momentum_pct.den)
               THEN Idle("weak_momentum", 2)
          ELSE Ended("sleep",
                     <<Line("tick"),
                       [k |-> "signal",
                        side |-> IF s.v.direction = "up" THEN "YES" ELSE "NO",
                        momentum |-> FormatMomentum(s.v.momentum_pct),
                        yes |-> FormatPrice(y.v)]>>
                     \o (IF a.live THEN <<>> ELSE <<Line("dry_run")>>),
                     NoExc, 2))))

\* C16: a cycle starts from a clean slate (no candidate, no signal, no
\* exception, no request left from an earlier cycle), and the way it ends
\* (idle reason, error, or the decision's side, momentum and yes-price) is a
\* function of its own inputs only, whatever cycles ran before it.
C16_StatelessAcrossTicks ==
    /\ pc = "start" =>
          /\ market = Unbound /\ signal = Unbound
          /\ exc = NoExc
          /\ InFlight(reqs) = {}
    /\ pc \in {"sleep", "exited"} =>
          Ended(pc, out, exc, Len(reqs)) = CycleOutcome(env, args, clock, reqs)

\* C16's case: a cycle that began after a sleep, so after an earlier
\* cycle, has ended in a decision.
C16_Witness ==
    /\ pc = "sleep"
    /\ clock % 60 = 2
    /\ Emitted(out)
    /\ Ended(pc, out, exc, Len(reqs)) = CycleOutcome(env, args, clock, reqs)

\* titles without the pattern (no time, no "-" before the time) and titles
\* whose match is no date: the first "<word> <digits>" is "Down 2", the
\* month is abbreviated, the day is 30 February, the hour is 13
UnparsableTitles == {Q_NOTIME, Q_NODASH, Q_DOWN2, Q_JAN, Q_FEB30, Q_1305}

\* the feed answered a list of entries with a str title, a str slug and an
\* int fee
PlainEntry(m) ==
    /\ m.t = "dict"
    /\ {"question", "slug"} \subseteq DOMAIN m.kv
    /\ m.kv.question.t = "str" /\ m.kv.slug.t = "str"
    /\ "fee_rate_bps" \in DOMAIN m.kv => m.kv.fee_rate_bps.t = "int"
PlainFeed(v) == v.t = "list" /\ \A i \in 1..Len(v.xs) : PlainEntry(v.xs[i])

\* C17: parse_end_time returns None, and raises nothing, for a title
\* without the pattern and for a title whose match is no month, day and
\* 12-hour time; a candidate without an expiry is never selected.
C17_UnparsableIsAbsent ==
    [][/\ (pc = "discover" /\ PlainFeed(resp')) =>
             /\ pc' = "select"
             /\ exc' = NoExc
             /\ \A i \in 1..Len(markets') :
                   markets'[i].question.s \in UnparsableTitles =>
                       markets'[i].end_time = None
       /\ pc = "select" =>
             /\ pc' = "price" =>
                   /\ market'.end_time # None
                   /\ market'.question.s \notin UnparsableTitles
             /\ (\A i \in 1..Len(markets) : markets[i].end_time = None) =>
                   pc' = "sleep"]_vars

\* C17's case: discovery returned candidates whose titles do not parse
\* next to one whose title does, and that one was selected.
C17_Witness ==
    /\ pc = "price"
    /\ \E i \in 1..Len(markets) :
          markets[i].question.s = Q_DOWN2 /\ markets[i].end_time = None
    /\ \E i \in 1..Len(markets) :
          markets[i].question.s = Q_FEB30 /\ markets[i].end_time = None
    /\ market.question.s = Q_0905

\* the entry's title, a str, contains "bitcoin up or down" in any case and
\* its slug, a str, contains "-5m-"
Matches(m) ==
    /\ m.t = "dict"
    /\ {"question", "slug"} \subseteq DOMAIN m.kv
    /\ m.kv.question.t = "str" /\ m.kv.slug.t = "str"
    /\ Contains(Lower(Chars(m.kv.question.s)), Chars("bitcoin up or down"))
    /\ Contains(Chars(m.kv.slug.s), <<"-", "5", "m", "-">>)

\* the candidate that carries the entry m unmodified
Carried(m) ==
    [t |-> "dict",
     question |-> m.kv.question,
     slug |-> m.kv.slug,
     end_time |-> parse_end_time(m.kv.question.s, YearOf(clock)),
     outcome_prices |-> DictGet(m, "outcomePrices", PyStr("[]")),
     fee_rate_bps |-> DictGet(m, "fee_rate_bps", PyInt(0))]

\* the matching entries of xs from the i-th on, in feed order
RECURSIVE CarriedFrom(_, _)
CarriedFrom(xs, i) ==
    IF i > Len(xs) THEN <<>>
    ELSE (IF Matches(xs[i]) THEN <<Carried(xs[i])>> ELSE <<>>) \o CarriedFrom(xs, i + 1)

\* C18: for every list the discovery feed answers, discover_fast_markets
\* returns one candidate per entry whose title contains the asset phrase
\* (in any case) and whose slug contains "-5m-", in feed order, each with
\* the parsed expiry of its title and the entry's outcome prices and fee
\* as the feed gave them.
C18_DiscoveryPassesThrough ==
    [][(pc = "discover" /\ IsList(resp')) =>
          /\ pc' = "select"
          /\ markets' = CarriedFrom(resp'.xs, 1)]_vars

\* the fraction m is a number and m >= 0.5; m <= -0.5
AtLeastHalf(m) ==
    \/ m.den > 0 /\ m.num * 1000 >= 500 * m.den
    \/ m.den < 0 /\ m.num * 1000 <= 500 * m.den
AtMostMinusHalf(m) ==
    \/ m.den > 0 /\ m.num * 1000 <= (0 - 500) * m.den
    \/ m.den < 0 /\ m.num * 1000 >= (0 - 500) * m.den

\* C19: a decision is printed with side YES only when the momentum is
\* >= 0.5 and with side NO only when it is <= -0.5, never for a momentum of
\* 0, and only for the market select_tradeable_market returned in the
\* same cycle.
C19_SideAgreesWithMomentum ==
    [][(Emitted(out') /\ ~Emitted(out)) =>
          /\ out'[Len(out) + 1].side \in {"YES", "NO"}
          /\ out'[Len(out) + 1].side = "YES" => AtLeastHalf(signal.momentum_pct)
          /\ out'[Len(out) + 1].side = "NO" => AtMostMinusHalf(signal.momentum_pct)
          /\ signal.momentum_pct.num # 0
          /\ market.t = "dict"
          /\ market = select_tradeable_market(markets, clock)]_vars

\* every second of the minute before T_0905, at four microseconds each
SleepTimes ==
    {[ts |-> T_0905 - 60 + s, us |-> us] : s \in 0..59, us \in {0, 1, 500000, 999999}}

\* called at any of SleepTimes, the sleep lasts more than 2 s, at most 62 s,
\* and ends at T_0905 plus 2 s exactly
SleepAtAnyTime ==
    \A now \in SleepTimes :
        With(sleep_until_next_minute(now, 2), LAMBDA sleep_sec :
          /\ sleep_sec > 2 * Mega
          /\ sleep_sec <= 62 * Mega
          /\ (now.us + sleep_sec) % Mega = 0
          /\ WakeTime(now, sleep_sec) = T_0905 + 2)

\* C20: sleep_until_next_minute(2) sleeps for more than 2 s and at most
\* 62 s and wakes exactly 2 s after the first minute boundary later than
\* the minute it was called in, so never at second 2 of that same minute,
\* and two wake-ups in a row are never in the same minute.
C20_WakesTwoPastNextMinute ==
    [][pc = "sleep" =>
          /\ SleepAtAnyTime
          /\ nap'.sleep_sec > 2 * Mega
          /\ nap'.sleep_sec <= 62 * Mega
          /\ (nap'.now.us + nap'.sleep_sec) % Mega = 0
          /\ clock' = nap'.now.ts + (nap'.now.us + nap'.sleep_sec) \div Mega
          /\ clock' = (nap'.now.ts \div 60) * 60 + 60 + 2
          /\ clock' \div 60 > nap'.now.ts \div 60
          /\ clock' \div 60 > clock \div 60]_vars

\* C20's case: the sleep was called in the first two seconds of a minute,
\* lasted more than a minute and ended at second 2 of the next minute.
C20_Witness ==
    /\ pc = "start"
    /\ nap # Unbound
    /\ nap.now.ts % 60 <= 1
    /\ nap.now.us > 0
    /\ nap.sleep_sec > 60 * Mega
    /\ clock % 60 = 2

====
